---- MODULE Spec2Model ----
(***************************************************************************)
(* Particle filter in a maze (src/maze.py, src/main.py).                   *)
(*                                                                         *)
(* Coordinates, distances and speeds are fixed-point numbers on an integer *)
(* lattice (one lattice unit is the resolution of the model); a product    *)
(* with a fraction (sin, cos, 0.9999) is truncated to the lattice.         *)
(* Headings are degrees, on the lattice of multiples of 45.  Weights are   *)
(* exact rationals <<numerator, denominator>>.                             *)
(***************************************************************************)
EXTENDS Integers, Sequences, FiniteSets, TLC

\* Model parameters (command-line parameters of main.py, scaled down).
grid_height == 3
grid_width == 4
robot_speed == 3
num_particles == 2

\* Bounds of the model.
MaxCells == 4        \* random mazes: num_rows * num_cols <= MaxCells
MaxGridCells == 3    \* explicit mask grids: rows * cols <= MaxGridCells
MaxSpeed == 5        \* speeds tried by try_move in SpecOps
MaxNoise == 1        \* largest magnitude of a Gaussian noise draw (lattice units)
MaxPopulation == 3   \* populations resampled in SpecSelect
UDen == 4            \* np.random.uniform(0, 1) draws a multiple of 1 / UDen
MaxRounds == 1       \* steps of the loop of main
MaxTimeStep == 3     \* largest Robot.time_step (attempts of Robot.move)
kernel_sigma == 1

None == 0 - 1

VARIABLES
    pc,          \* position of the program
    num_rows,    \* Maze.num_rows
    num_cols,    \* Maze.num_cols
    maze,        \* Maze.maze: [<<i, j>> -> cell mask]
    bob,         \* the Robot
    particles,   \* the particle population
    loc,         \* the other local variables of main
    call         \* the last operation applied: its inputs and its result

vars == <<pc, num_rows, num_cols, maze, bob, particles, loc, call>>

----------------------------------------------------------------------------
\* Integer helpers.

Min(a, b) == IF a < b THEN a ELSE b
Max(a, b) == IF a > b THEN a ELSE b
Abs(a) == IF a < 0 THEN 0 - a ELSE a

\* Python's // on a quotient a / b of integers (floor, any sign of b /= 0).
FloorDiv(a, b) == IF b > 0 THEN a \div b ELSE (0 - a) \div (0 - b)

\* v & b != 0 for a single bit b of a mask v in 0..15.
HasBit(v, b) == (v \div b) % 2 = 1

\* v | b for a single bit b.
OrBit(v, b) == IF HasBit(v, b) THEN v ELSE v + b

\* v | b1 | b2 | ... for a set of single bits.
RECURSIVE OrBits(_, _)
OrBits(v, bs) ==
    IF bs = {} THEN v
    ELSE LET b == CHOOSE b \in bs : TRUE IN OrBits(OrBit(v, b), bs \ {b})

----------------------------------------------------------------------------
\* class Maze

Cells(nr, nc) == (0 .. nr - 1) \X (0 .. nc - 1)

\* numpy indexing of an axis of length n: -n .. n-1 are valid, negative wraps.
IndexOk(i, n) == (0 - n) <= i /\ i < n
Wrap(i, n) == IF i < 0 THEN i + n ELSE i

check_wall_inconsistency(g, nr, nc) ==
    { <<<<i, j>>, "v">> : <<i, j>> \in
        { c \in (0 .. nr - 1) \X (0 .. nc - 2) :
            HasBit(g[c], 2) # HasBit(g[<<c[1], c[2] + 1>>], 8) } }
    \cup
    { <<<<i, j>>, "h">> : <<i, j>> \in
        { c \in (0 .. nr - 2) \X (0 .. nc - 1) :
            HasBit(g[c], 4) # HasBit(g[<<c[1] + 1, c[2]>>], 1) } }

fix_wall_inconsistency_one_side(g, nr, nc) ==
    LET wall_errors == check_wall_inconsistency(g, nr, nc)
    IN [c \in Cells(nr, nc) |->
          OrBits(g[c],
              (IF <<c, "v">> \in wall_errors THEN {2} ELSE {})
         \cup (IF <<c, "h">> \in wall_errors THEN {4} ELSE {}))]

fix_wall_inconsistency(g, nr, nc) ==
    LET wall_errors == check_wall_inconsistency(g, nr, nc)
    IN [c \in Cells(nr, nc) |->
          OrBits(g[c],
              (IF <<c, "v">> \in wall_errors THEN {2} ELSE {})
         \cup (IF <<<<c[1], c[2] - 1>>, "v">> \in wall_errors THEN {8} ELSE {})
         \cup (IF <<c, "h">> \in wall_errors THEN {4} ELSE {})
         \cup (IF <<<<c[1] - 1, c[2]>>, "h">> \in wall_errors THEN {1} ELSE {}))]

fix_maze_boundary_no_last(g, nr, nc) ==
    [c \in Cells(nr, nc) |->
          OrBits(g[c],
              (IF c[2] = 0 THEN {8} ELSE {})
         \cup (IF c[1] = 0 THEN {1} ELSE {}))]

\* maze[i, -1] and maze[-1, j] are the last column and the last row.
fix_maze_boundary(g, nr, nc) ==
    [c \in Cells(nr, nc) |->
          OrBits(g[c],
              (IF c[2] = 0 THEN {8} ELSE {})
         \cup (IF c[2] = Wrap(0 - 1, nc) THEN {2} ELSE {})
         \cup (IF c[1] = 0 THEN {1} ELSE {})
         \cup (IF c[1] = Wrap(0 - 1, nr) THEN {4} ELSE {}))]

\* The grid random_maze builds before the fixes: rights and bottoms are the
\* cells whose np.random.rand() < wall_prob draw succeeded.
random_grid(nr, nc, rights, bottoms) ==
    [c \in Cells(nr, nc) |->
          OrBits(0, (IF c \in rights THEN {2} ELSE {})
               \cup (IF c \in bottoms THEN {4} ELSE {}))]

\* Maze.__init__, both paths: the fixes applied to the grid.
construct(g, nr, nc) ==
    fix_wall_inconsistency(fix_maze_boundary(g, nr, nc), nr, nc)

height == num_rows * grid_height
width == num_cols * grid_width

permissibilities_swapped(cell) ==
    LET cell_value == maze[cell]
    IN <<~HasBit(cell_value, 1), ~HasBit(cell_value, 2),
         ~HasBit(cell_value, 8), ~HasBit(cell_value, 4)>>

permissibilities(cell) ==
    LET cell_value == maze[cell]
    IN <<~HasBit(cell_value, 1), ~HasBit(cell_value, 2),
         ~HasBit(cell_value, 4), ~HasBit(cell_value, 8)>>

\* One while loop of distance_to_walls: from cell (i, j) step by (di, dj)
\* while direction k of the cell is permissible.  The result counts the hops
\* and records whether a read used an index outside 0..n-1 (oob: numpy wraps
\* a negative index), whether a read raised IndexError (fault), and whether
\* the loop was still running after more hops than the grid has cells.
RECURSIVE Walk(_, _, _, _, _, _, _)
Walk(i, j, di, dj, k, hops, oob) ==
    IF ~(IndexOk(i, num_rows) /\ IndexOk(j, num_cols))
    THEN [hops |-> hops, oob |-> TRUE, fault |-> TRUE, diverged |-> FALSE]
    ELSE IF hops > num_rows * num_cols
    THEN [hops |-> hops, oob |-> oob, fault |-> FALSE, diverged |-> TRUE]
    ELSE LET out == oob \/ i < 0 \/ j < 0
         IN IF permissibilities(<<Wrap(i, num_rows), Wrap(j, num_cols)>>)[k]
            THEN Walk(i + di, j + dj, di, dj, k, hops + 1, out)
            ELSE [hops |-> hops, oob |-> out, fault |-> FALSE, diverged |-> FALSE]

\* The step <<di, dj>> of each of the four loops: i -= 1, j += 1, i += 1, j -= 1.
WalkDir == <<<<0 - 1, 0>>, <<0, 1>>, <<1, 0>>, <<0, 0 - 1>>>>

distance_to_walls(x, y) ==
    LET i == y \div grid_height
        j == x \div grid_width
        w1 == Walk(i, j, WalkDir[1][1], WalkDir[1][2], 1, 0, FALSE)
        w2 == Walk(i, j, WalkDir[2][1], WalkDir[2][2], 2, 0, FALSE)
        w3 == Walk(i, j, WalkDir[3][1], WalkDir[3][2], 3, 0, FALSE)
        w4 == Walk(i, j, WalkDir[4][1], WalkDir[4][2], 4, 0, FALSE)
        ws == <<w1, w2, w3, w4>>
        d1 == (y - (y \div grid_height) * grid_height) + w1.hops * grid_height
        d2 == (grid_width - (x - (x \div grid_width) * grid_width)) + w2.hops * grid_width
        d3 == (grid_height - (y - (y \div grid_height) * grid_height)) + w3.hops * grid_height
        d4 == (x - (x \div grid_width) * grid_width) + w4.hops * grid_width
    IN [d |-> <<d1, d2, d3, d4>>,
        hops |-> <<w1.hops, w2.hops, w3.hops, w4.hops>>,
        oob |-> \E n \in 1 .. 4 : ws[n].oob,
        fault |-> \E n \in 1 .. 4 : ws[n].fault,
        diverged |-> \E n \in 1 .. 4 : ws[n].diverged]

----------------------------------------------------------------------------
\* class Particle

Headings == {0, 45, 90, 135, 180, 225, 270, 315}

\* np.random.normal(0, abs(x) * z / 2): no noise at all when x is 0.
Noise(x) == IF x = 0 THEN {0} ELSE (0 - MaxNoise) .. MaxNoise

\* The same for a heading, on the lattice of headings.
HeadingNoise(h) == IF h = 0 THEN {0} ELSE {45 * n : n \in (0 - MaxNoise) .. MaxNoise}

add_noise(x, n) == x + n

fix_invalid_particles(p) ==
    LET x1 == IF p.x < 0 THEN 0 ELSE p.x
        x2 == IF x1 > width THEN (width * 9999) \div 10000 ELSE x1
        y1 == IF p.y < 0 THEN 0 ELSE p.y
        y2 == IF y1 > height THEN (height * 9999) \div 10000 ELSE y1
    IN [p EXCEPT !.x = x2, !.y = y2, !.heading = p.heading % 360]

\* Particle.__init__; noise is the triple of draws used when noisy.
Particle(x, y, heading, sensor_limit, noisy, noise) ==
    fix_invalid_particles(
        [x |-> IF noisy THEN add_noise(x, noise[1]) ELSE x,
         y |-> IF noisy THEN add_noise(y, noise[2]) ELSE y,
         heading |-> IF noisy THEN add_noise(heading, noise[3]) ELSE heading,
         weight |-> <<1, 1>>,
         sensor_limit |-> sensor_limit])

RotateLeft(readings, k) ==
    SubSeq(readings, k + 1, Len(readings)) \o SubSeq(readings, 1, k)

\* readings[-k:] + readings[:-k]
Rotate(readings, k) ==
    SubSeq(readings, Len(readings) - k + 1, Len(readings))
        \o SubSeq(readings, 1, Len(readings) - k)

Bucket(heading) ==
    IF heading >= 45 /\ heading < 135 THEN 0
    ELSE IF heading >= 135 /\ heading < 225 THEN 1
    ELSE IF heading >= 225 /\ heading < 315 THEN 2
    ELSE 3

Clip(readings, sensor_limit) ==
    IF sensor_limit = None THEN readings
    ELSE [i \in 1 .. Len(readings) |->
            IF readings[i] > sensor_limit THEN sensor_limit ELSE readings[i]]

\* The part of read_sensor after the raw reading is taken.
Orient(readings, h, sensor_limit) ==
    LET heading == h % 360
    IN Clip(Rotate(readings, Bucket(heading)), sensor_limit)

read_sensor(p) ==
    LET dw == distance_to_walls(p.x, p.y)
    IN [raw |-> dw.d, fault |-> dw.fault,
        readings |-> Orient(dw.d, p.heading, p.sensor_limit)]

\* np.sin and np.cos of a heading of the lattice, times 1000.
Sin1000(h) ==
    CASE h = 0 -> 0 [] h = 45 -> 707 [] h = 90 -> 1000 [] h = 135 -> 707
      [] h = 180 -> 0 [] h = 225 -> 0 - 707 [] h = 270 -> 0 - 1000
      [] h = 315 -> 0 - 707

Cos1000(h) == Sin1000((h + 90) % 360)

\* A fraction (in thousandths) times a speed, truncated to the lattice.
Times(f1000, speed) ==
    IF f1000 < 0 THEN 0 - (((0 - f1000) * speed) \div 1000)
    ELSE (f1000 * speed) \div 1000

\* maze.maze[i, j] as numpy reads it: None for an IndexError.
MazeRead(i, j) ==
    IF IndexOk(i, num_rows) /\ IndexOk(j, num_cols)
    THEN maze[<<Wrap(i, num_rows), Wrap(j, num_cols)>>]
    ELSE None

\* The displacement of twice the speed.
DisplacementTwice(heading, speed) ==
    <<Times(Sin1000(heading), 2 * speed), Times(Cos1000(heading), 2 * speed)>>

\* dx = np.sin(heading_rad) * speed, dy = np.cos(heading_rad) * speed
Displacement(heading, speed) ==
    <<Times(Sin1000(heading), speed), Times(Cos1000(heading), speed)>>

\* return False: the pose is what it was.
Stay(p, reads) == [p |-> p, accepted |-> FALSE, fault |-> "none", reads |-> reads]

GoSwapped(p, x, y, reads) ==
    [p |-> [p EXCEPT !.x = y, !.y = x], accepted |-> TRUE, fault |-> "none",
     reads |-> reads]

\* self.x = x; self.y = y; return True
Go(p, x, y, reads) ==
    [p |-> [p EXCEPT !.x = x, !.y = y], accepted |-> TRUE, fault |-> "none",
     reads |-> reads]

\* An exception leaves try_move: IndexError ("index") or 'Unexpected collision
\* detection.' ("collision").  Nothing was assigned before it.
Raise(p, fault, reads) == [p |-> p, accepted |-> FALSE, fault |-> fault, reads |-> reads]

VerticalCellMax(gi1, gi2, gj1) == <<Max(gi1, gi2), gj1>>

\* The cell whose bottom bit decides a move across one row.
VerticalCell(gi1, gi2, gj1) == <<Min(gi1, gi2), gj1>>

\* The cell whose right bit decides a move across one column.
HorizontalCell(gi1, gj1, gj2) == <<gi1, Min(gj1, gj2)>>

\* if maze.maze[c] & bit != 0: return False, else move.
Decide(p, x, y, c, bit, reads) ==
    IF MazeRead(c[1], c[2]) = None THEN Raise(p, "index", reads \cup {c})
    ELSE IF HasBit(MazeRead(c[1], c[2]), bit) THEN Stay(p, reads \cup {c})
    ELSE Go(p, x, y, reads \cup {c})

\* The two cells looked up by a move across one row and one column: the row
\* where the segment meets x0 = max(gj1, gj2) * grid_width, in the column
\* min(gj1, gj2), and the column where it meets y0 = max(gi1, gi2) *
\* grid_height, in the row min(gi1, gi2); y0 = (y - self.y) / (x - self.x) *
\* (x0 - self.x) + self.y and int(y0 // grid_height) in exact arithmetic.
DiagonalCells(p, dx, dy, gi1, gj1, gi2, gj2) ==
    LET xa == Max(gj1, gj2) * grid_width
        ia == FloorDiv(dy * (xa - p.x) + p.y * dx, dx * grid_height)
        yb == Max(gi1, gi2) * grid_height
        jb == FloorDiv(dx * (yb - p.y) + p.x * dy, dy * grid_width)
    IN <<<<ia, Min(gj1, gj2)>>, <<Min(gi1, gi2), jb>>>>

try_move(p, speed) ==
    LET heading == p.heading
        dx == Displacement(heading, speed)[1]
        dy == Displacement(heading, speed)[2]
        x == p.x + dx
        y == p.y + dy
        gj1 == p.x \div grid_width
        gi1 == p.y \div grid_height
        gj2 == x \div grid_width
        gi2 == y \div grid_height
    IN IF gi2 < 0 \/ gi2 >= num_rows \/ gj2 < 0 \/ gj2 >= num_cols
       THEN Stay(p, {})
       ELSE IF gi1 = gi2 /\ gj1 = gj2
       THEN Go(p, x, y, {})
       ELSE IF Abs(gi1 - gi2) = 1 /\ Abs(gj1 - gj2) = 0
       THEN Decide(p, x, y, VerticalCell(gi1, gi2, gj1), 4, {})
       ELSE IF Abs(gi1 - gi2) = 0 /\ Abs(gj1 - gj2) = 1
       THEN Decide(p, x, y, HorizontalCell(gi1, gj1, gj2), 2, {})
       ELSE IF Abs(gi1 - gi2) = 1 /\ Abs(gj1 - gj2) = 1
       THEN LET cs == DiagonalCells(p, dx, dy, gi1, gj1, gi2, gj2)
            IN IF MazeRead(cs[1][1], cs[1][2]) = None
               THEN Raise(p, "index", {cs[1]})
               ELSE IF HasBit(MazeRead(cs[1][1], cs[1][2]), 2)
               THEN Stay(p, {cs[1]})
               ELSE Decide(p, x, y, cs[2], 4, {cs[1]})
       ELSE Raise(p, "collision", {})

----------------------------------------------------------------------------
\* The operations applied to bounded inputs: a maze built by either path of
\* Maze.__init__, a particle built by Particle.__init__, then read_sensor
\* and try_move applied to it.

Shapes(n) == { s \in (1 .. n) \X (1 .. n) : s[1] * s[2] <= n }

\* sensor_limit_ratio * max(grid_height * num_rows, grid_width * num_cols),
\* the ratio in tenths.
sensor_limit_of(ratio10, nr, nc) ==
    (ratio10 * Max(grid_height * nr, grid_width * nc)) \div 10

NoCall == [op |-> "none"]
NoLocals == [particles_new |-> <<>>, heading_old |-> 0, dh |-> 0, i |-> 0, round |-> 0]
NoAgent == [x |-> 0, y |-> 0, heading |-> 0, weight |-> <<1, 1>>, sensor_limit |-> None]

InitOps ==
    /\ pc = "new"
    /\ num_rows = 0
    /\ num_cols = 0
    /\ maze = <<>>
    /\ bob = NoAgent
    /\ particles = <<>>
    /\ loc = NoLocals
    /\ call = NoCall

\* Maze(grid_height, grid_width, maze = g)
MazeFromGrid ==
    /\ pc = "new"
    /\ \E s \in Shapes(MaxGridCells) :
       \E g \in [Cells(s[1], s[2]) -> 0 .. 15] :
          /\ num_rows' = s[1]
          /\ num_cols' = s[2]
          /\ maze' = construct(g, s[1], s[2])
          /\ call' = [op |-> "Maze", path |-> "grid", grid |-> g]
    /\ pc' = "built"
    /\ UNCHANGED <<bob, particles, loc>>

\* Maze(grid_height, grid_width, num_rows, num_cols, wall_prob, random_seed)
MazeRandom ==
    /\ pc = "new"
    /\ \E s \in Shapes(MaxCells) :
       \E rights \in SUBSET ((0 .. s[1] - 1) \X (0 .. s[2] - 2)) :
       \E bottoms \in SUBSET ((0 .. s[1] - 2) \X (0 .. s[2] - 1)) :
          /\ num_rows' = s[1]
          /\ num_cols' = s[2]
          /\ maze' = construct(random_grid(s[1], s[2], rights, bottoms), s[1], s[2])
          /\ call' = [op |-> "Maze", path |-> "random",
                      grid |-> random_grid(s[1], s[2], rights, bottoms)]
    /\ pc' = "built"
    /\ UNCHANGED <<bob, particles, loc>>

\* Particle(x, y, maze, heading, sensor_limit, noisy)
NewParticle ==
    /\ pc = "built"
    /\ \E x \in 0 .. width - 1, y \in 0 .. height - 1, h \in Headings :
       \E sl \in {None, sensor_limit_of(3, num_rows, num_cols)} :
       \E noisy \in BOOLEAN :
       \E noise \in IF noisy THEN Noise(x) \X Noise(y) \X HeadingNoise(h)
                    ELSE {<<0, 0, 0>>} :
          /\ particles' = <<Particle(x, y, h, sl, noisy, noise)>>
          /\ call' = [op |-> "Particle"]
    /\ pc' = "agent"
    /\ UNCHANGED <<num_rows, num_cols, maze, bob, loc>>

\* particle.read_sensor(maze)
ReadSensor ==
    /\ pc = "agent"
    /\ LET p == particles[1]
           dw == distance_to_walls(p.x, p.y)
           r == read_sensor(p)
       IN /\ call' = [op |-> "read_sensor", p |-> p, dw |-> dw,
                      readings |-> IF r.fault THEN <<>> ELSE r.readings]
          /\ pc' = IF r.fault THEN "crashed" ELSE "agent"
    /\ UNCHANGED <<num_rows, num_cols, maze, bob, particles, loc>>

Speeds == {1, robot_speed, MaxSpeed}

\* particle.try_move(speed, maze)
TryMove ==
    /\ pc = "agent"
    /\ \E speed \in Speeds :
       LET p == particles[1]
           r == try_move(p, speed)
       IN /\ particles' = <<r.p>>
          /\ call' = [op |-> "try_move", p |-> p, speed |-> speed,
                      accepted |-> r.accepted, fault |-> r.fault, reads |-> r.reads,
                      grid |-> maze]
          /\ pc' = IF r.fault = "none" THEN "agent" ELSE "crashed"
    /\ UNCHANGED <<num_rows, num_cols, maze, bob, loc>>

\* Maze construction, from every mask grid and every sequence of draws.
NextMaze == MazeFromGrid \/ MazeRandom

SpecMaze == InitOps /\ [][NextMaze]_vars

\* The operations of a particle in a constructed maze.
NextOps == MazeRandom \/ NewParticle \/ ReadSensor \/ TryMove

SpecOps == InitOps /\ [][NextOps]_vars

----------------------------------------------------------------------------
\* Weights: exact rationals <<n, d>>, d > 0, in lowest terms.

RECURSIVE GCD(_, _)
GCD(a, b) == IF b = 0 THEN a ELSE GCD(b, a % b)

Rat(n, d) == IF n = 0 THEN <<0, 1>> ELSE <<n \div GCD(n, d), d \div GCD(n, d)>>
RatAdd(a, b) == Rat(a[1] * b[2] + b[1] * a[2], a[2] * b[2])
RatDiv(a, b) == Rat(a[1] * b[2], a[2] * b[1])
RatLess(a, b) == a[1] * b[2] < b[1] * a[2]

RECURSIVE RatSum(_)
RatSum(ws) == IF ws = <<>> THEN <<0, 1>> ELSE RatAdd(RatSum(Tail(ws)), Head(ws))

\* np.exp(-n / d), truncated to quarters: 1 at 0, 0 below 1/4 (the lattice
\* of weights; np.exp underflows to 0.0 the same way, much further out).
ExpNeg(n, d) ==
    IF n = 0 THEN <<1, 1>>
    ELSE IF n * 100000 <= 28768 * d THEN <<3, 4>>
    ELSE IF n * 100000 <= 69314 * d THEN <<1, 2>>
    ELSE IF n * 100000 <= 138629 * d THEN <<1, 4>>
    ELSE <<0, 1>>

RECURSIVE SumSquares(_, _)
SumSquares(x1, x2) ==
    IF x1 = <<>> THEN 0
    ELSE (Head(x1) - Head(x2)) * (Head(x1) - Head(x2)) + SumSquares(Tail(x1), Tail(x2))

\* np.exp(-distance ** 2 / (2 * std))
weight_gaussian_kernel(x1, x2, std) == ExpNeg(SumSquares(x1, x2), 2 * std)

----------------------------------------------------------------------------
\* class WeightedDistribution

\* The list of running sums of the weights, in population order.
RECURSIVE Accumulate(_, _)
Accumulate(ws, accum) ==
    IF ws = <<>> THEN <<>>
    ELSE <<RatAdd(accum, Head(ws))>> \o Accumulate(Tail(ws), RatAdd(accum, Head(ws)))

WeightedDistribution(ps) == Accumulate([k \in 1 .. Len(ps) |-> ps[k].weight], <<0, 1>>)

bisect_right(a, x, lo, hi) ==
    LET RECURSIVE search(_, _)
        search(l, h) ==
            IF l < h
            THEN LET mid == (l + h) \div 2
                 IN IF RatLess(x, a[mid + 1]) THEN search(l, mid) ELSE search(mid + 1, h)
            ELSE l
    IN search(lo, hi)

\* bisect.bisect_left(a, x): indexes from 0, a[mid] is a[mid + 1] here.
bisect_left(a, x, lo, hi) ==
    LET RECURSIVE search(_, _)
        search(l, h) ==
            IF l < h
            THEN LET mid == (l + h) \div 2
                 IN IF RatLess(a[mid + 1], x) THEN search(mid + 1, h) ELSE search(l, mid)
            ELSE l
    IN search(lo, hi)

\* random_select without its except clause: the IndexError leaves it (a
\* negative result).
random_select_uncaught(distribution, u) ==
    LET k == bisect_left(distribution, u, 0, Len(distribution))
    IN IF k < Len(distribution) THEN k + 1 ELSE 0 - 1

\* random_select with the uniform draw u: the index (from 1) of the
\* particle returned, 0 for None (the IndexError caught).
random_select(distribution, u) ==
    LET k == bisect_left(distribution, u, 0, Len(distribution))
    IN IF k < Len(distribution) THEN k + 1 ELSE 0

----------------------------------------------------------------------------
\* The resampler applied to bounded populations: weights as the kernel
\* returns them, normalized as main does, then random_select.

KernelWeights == {<<0, 1>>, <<1, 4>>, <<1, 2>>, <<3, 4>>, <<1, 1>>}

\* if particle_weight_total == 0: particle_weight_total = 1e-8
Divisor(total) == IF total[1] = 0 THEN <<1, 100000000>> ELSE total

\* for particle in particles: particle.weight /= particle_weight_total
Normalized(ps) ==
    LET particle_weight_total == RatSum([k \in 1 .. Len(ps) |-> ps[k].weight])
    IN [k \in 1 .. Len(ps) |->
          [ps[k] EXCEPT !.weight = RatDiv(ps[k].weight, Divisor(particle_weight_total))]]

\* The draws of np.random.uniform(0, 1): the multiples of 1 / UDen in [0, 1).
Uniform01 == {<<k, UDen>> : k \in 0 .. UDen - 1}

InitSelect ==
    /\ pc = "weighted"
    /\ num_rows = 0
    /\ num_cols = 0
    /\ maze = <<>>
    /\ bob = NoAgent
    /\ \E n \in 0 .. MaxPopulation :
          particles \in [1 .. n -> {[NoAgent EXCEPT !.weight = w] : w \in KernelWeights}]
    /\ loc = NoLocals
    /\ call = NoCall

\* main, lines 48-54
Normalize ==
    /\ pc = "weighted"
    /\ particles' = Normalized(particles)
    /\ pc' = "normalized"
    /\ call' = [op |-> "normalize", before |-> particles]
    /\ UNCHANGED <<num_rows, num_cols, maze, bob, loc>>

\* distribution = WeightedDistribution(particles); distribution.random_select()
RandomSelect ==
    /\ pc = "normalized"
    /\ \E u \in Uniform01 :
          call' = [op |-> "random_select", u |-> u,
                   distribution |-> WeightedDistribution(particles),
                   k |-> random_select(WeightedDistribution(particles), u)]
    /\ UNCHANGED <<pc, num_rows, num_cols, maze, bob, particles, loc>>

NextSelect == Normalize \/ RandomSelect

SpecSelect == InitSelect /\ [][NextSelect]_vars

----------------------------------------------------------------------------
\* main: the maze, the robot, the particles, then the loop of steps.  The
\* uniform draws of a position and of a first heading come from samples.

MainShapes == {<<1, 2>>}

\* np.random.uniform(0, limit) for a coordinate
Uniform(limit) == {1, limit - 1}

\* np.random.uniform(0, 360) for the heading of a new particle
UniformHeading == {225}

\* The draws of add_sensor_noise for the four readings: none, or the
\* largest on every reading that is not 0.
SensorNoise(readings) ==
    {<<0, 0, 0, 0>>, [n \in 1 .. 4 |-> IF readings[n] = 0 THEN 0 ELSE MaxNoise]}

\* The draws of add_noise for x, y and the heading of a noisy Particle:
\* none, the largest on both coordinates, the smallest on the heading.
NoiseDraws(x, y, h) ==
    {<<0, 0, 0>>,
     <<IF x = 0 THEN 0 ELSE MaxNoise, IF y = 0 THEN 0 ELSE MaxNoise, 0>>,
     <<0, 0, IF h = 0 THEN 0 ELSE 0 - 45 * MaxNoise>>}

sensor_limit == sensor_limit_of(3, num_rows, num_cols)

\* Robot.__init__
Robot(x, y, heading, speed, sl, noise) ==
    [p |-> Particle(x, y, heading, sl, TRUE, noise), time_step |-> 0, speed |-> speed]

Init ==
    /\ pc = "new"
    /\ num_rows = 0
    /\ num_cols = 0
    /\ maze = <<>>
    /\ bob = NoAgent
    /\ particles = <<>>
    /\ loc = NoLocals
    /\ call = NoCall

\* world = Maze(...), line 16
MainMaze ==
    /\ pc = "new"
    /\ \E s \in MainShapes :
       \E rights \in SUBSET ((0 .. s[1] - 1) \X (0 .. s[2] - 2)) :
       \E bottoms \in SUBSET ((0 .. s[1] - 2) \X (0 .. s[2] - 1)) :
          /\ num_rows' = s[1]
          /\ num_cols' = s[2]
          /\ maze' = construct(random_grid(s[1], s[2], rights, bottoms), s[1], s[2])
    /\ pc' = "robot"
    /\ call' = [op |-> "Maze"]
    /\ UNCHANGED <<bob, particles, loc>>

\* bob = Robot(...), lines 18-20
MainRobot ==
    /\ pc = "robot"
    /\ \E x \in Uniform(width), y \in Uniform(height), h \in UniformHeading :
       \E noise \in NoiseDraws(x, y, h) :
          bob' = Robot(x, y, h, robot_speed, sensor_limit, noise)
    /\ pc' = "particles"
    /\ call' = [op |-> "Robot"]
    /\ UNCHANGED <<num_rows, num_cols, maze, particles, loc>>

\* particles.append(Particle(...)), lines 23-26
MainParticle ==
    /\ pc = "particles"
    /\ \E x \in Uniform(width), y \in Uniform(height), h \in UniformHeading :
          particles' = Append(particles, Particle(x, y, h, sensor_limit, FALSE, <<0, 0, 0>>))
    /\ pc' = IF Len(particles) + 1 >= num_particles THEN "sense" ELSE "particles"
    /\ call' = [op |-> "Particle"]
    /\ UNCHANGED <<num_rows, num_cols, maze, bob, loc>>

\* Robot.read_sensor: the particle's reading with add_sensor_noise.
robot_read_sensor(p, noise) ==
    LET r == read_sensor(p)
    IN [fault |-> r.fault,
        readings |-> [n \in 1 .. 4 |-> r.readings[n] + noise[n]]]

\* The step up to the normalized weights, lines 34-54.
Sense ==
    /\ pc = "sense"
    /\ loc.round < MaxRounds
    /\ IF read_sensor(bob.p).fault
          \/ \E k \in 1 .. Len(particles) : read_sensor(particles[k]).fault
       THEN /\ pc' = "crashed"
            /\ call' = [op |-> "read_sensor", fault |-> TRUE]
            /\ UNCHANGED <<particles, loc>>
       ELSE \E noise \in SensorNoise(read_sensor(bob.p).readings) :
            LET readings_robot == robot_read_sensor(bob.p, noise).readings
                weighted == [k \in 1 .. Len(particles) |->
                    [particles[k] EXCEPT !.weight =
                        weight_gaussian_kernel(readings_robot,
                            read_sensor(particles[k]).readings, kernel_sigma)]]
            IN /\ particles' = Normalized(weighted)
               /\ pc' = "resample"
               /\ loc' = [loc EXCEPT !.particles_new = <<>>]
               /\ call' = [op |-> "normalize",
                           zero |-> \A k \in 1 .. Len(weighted) : weighted[k].weight[1] = 0]
    /\ UNCHANGED <<num_rows, num_cols, maze, bob>>

\* One iteration of the resampling loop, lines 60-70, and after the last
\* one lines 72-74.  An exception out of random_select (a negative result)
\* would end the program.
ResampleDraw ==
    /\ pc = "resample"
    /\ \E u \in Uniform01 :
       LET k == random_select(WeightedDistribution(particles), u)
       IN IF k < 0
          THEN /\ pc' = "crashed"
               /\ call' = [op |-> "random_select", k |-> k, u |-> u]
               /\ UNCHANGED <<particles, loc>>
          ELSE \E new \in
                  IF k = 0
                  THEN {Particle(x, y, h, sensor_limit, FALSE, <<0, 0, 0>>) :
                          x \in Uniform(width), y \in Uniform(height), h \in UniformHeading}
                  ELSE {Particle(particles[k].x, particles[k].y, particles[k].heading,
                                 sensor_limit, TRUE, noise) :
                          noise \in NoiseDraws(particles[k].x, particles[k].y,
                                                particles[k].heading)} :
               LET particles_new == Append(loc.particles_new, new)
               IN /\ call' = [op |-> "random_select", k |-> k, u |-> u, new |-> new,
                              old |-> IF k = 0 THEN NoAgent ELSE particles[k],
                              zero |-> \A n \in 1 .. Len(particles) :
                                           particles[n].weight[1] = 0]
                  /\ IF Len(particles_new) >= num_particles
                     THEN /\ particles' = particles_new
                          /\ loc' = [loc EXCEPT !.particles_new = <<>>,
                                                !.heading_old = bob.p.heading]
                          /\ pc' = "robot_move"
                     ELSE /\ loc' = [loc EXCEPT !.particles_new = particles_new]
                          /\ pc' = "resample"
                          /\ UNCHANGED particles
    /\ UNCHANGED <<num_rows, num_cols, maze, bob>>

\* One iteration of the loop of Robot.move, h being the heading that
\* choose_random_direction draws after a rejected try_move; after the
\* accepted move lines 76-77 of main.  time_step stops counting at
\* MaxTimeStep.
RobotAttempt(h) ==
    /\ pc = "robot_move"
    /\ LET r == try_move(bob.p, bob.speed)
           moved == [bob EXCEPT !.time_step = Min(bob.time_step + 1, MaxTimeStep),
                                !.p = r.p]
       IN /\ call' = [op |-> "try_move", who |-> 0, p |-> bob.p, speed |-> bob.speed,
                      accepted |-> r.accepted, fault |-> r.fault, reads |-> r.reads,
                      grid |-> maze, time_step |-> bob.time_step]
          /\ IF r.fault # "none"
             THEN /\ pc' = "crashed"
                  /\ bob' = moved
                  /\ UNCHANGED loc
             ELSE IF r.accepted
             THEN /\ bob' = moved
                  /\ loc' = [loc EXCEPT !.dh = r.p.heading - loc.heading_old, !.i = 1]
                  /\ pc' = "particles_move"
             ELSE /\ bob' = [moved EXCEPT !.p.heading = h]
                  /\ pc' = "robot_move"
                  /\ UNCHANGED loc
    /\ UNCHANGED <<num_rows, num_cols, maze, particles>>

RobotMove == \E h \in Headings : RobotAttempt(h)

\* One iteration of the loop of lines 79-81.
ParticleMove ==
    /\ pc = "particles_move"
    /\ LET i == loc.i
           turned == [particles[i] EXCEPT !.heading = (particles[i].heading + loc.dh) % 360]
           r == try_move(turned, bob.speed)
       IN /\ call' = [op |-> "try_move", who |-> i, p |-> turned, speed |-> bob.speed,
                      accepted |-> r.accepted, fault |-> r.fault, reads |-> r.reads,
                      grid |-> maze, time_step |-> bob.time_step]
          /\ particles' = [particles EXCEPT ![i] = r.p]
          /\ IF r.fault # "none"
             THEN pc' = "crashed" /\ UNCHANGED loc
             ELSE IF i >= Len(particles)
             THEN pc' = "sense" /\ loc' = [loc EXCEPT !.i = 0, !.round = loc.round + 1]
             ELSE pc' = "particles_move" /\ loc' = [loc EXCEPT !.i = i + 1]
    /\ UNCHANGED <<num_rows, num_cols, maze, bob>>

Next ==
    \/ MainMaze
    \/ MainRobot
    \/ MainParticle
    \/ Sense
    \/ ResampleDraw
    \/ RobotMove
    \/ ParticleMove

Spec == Init /\ [][Next]_vars

----------------------------------------------------------------------------
\* One step from its robot move on: Robot.move from any pose inside any
\* constructed maze, with a speed of at most one cell, then the particles'
\* moves.  Every heading that choose_random_direction can draw is drawn
\* again and again as long as the loop runs.

CellSpeeds == {s \in 1 .. MaxSpeed : s <= Min(grid_height, grid_width)}

InitMove ==
    /\ pc = "robot_move"
    /\ call = NoCall
    /\ \E s \in MainShapes :
       \E rights \in SUBSET ((0 .. s[1] - 1) \X (0 .. s[2] - 2)) :
       \E bottoms \in SUBSET ((0 .. s[1] - 2) \X (0 .. s[2] - 1)) :
          /\ num_rows = s[1]
          /\ num_cols = s[2]
          /\ maze = construct(random_grid(s[1], s[2], rights, bottoms), s[1], s[2])
          /\ \E x \in 0 .. grid_width * s[2] - 1, y \in 0 .. grid_height * s[1] - 1 :
             \E h \in UniformHeading, speed \in CellSpeeds :
                /\ bob = [p |-> [x |-> x, y |-> y, heading |-> h, weight |-> <<1, 1>>,
                                 sensor_limit |-> sensor_limit_of(3, s[1], s[2])],
                          time_step |-> 0, speed |-> speed]
                /\ loc = [NoLocals EXCEPT !.heading_old = h]
          /\ particles = [k \in 1 .. num_particles |->
                            [x |-> 1, y |-> 1, heading |-> 225, weight |-> <<1, 1>>,
                             sensor_limit |-> sensor_limit_of(3, s[1], s[2])]]

NextMove == RobotMove \/ ParticleMove

MoveFairness == \A h \in Headings : SF_vars(RobotAttempt(h))

SpecMove == InitMove /\ [][NextMove]_vars /\ MoveFairness

----------------------------------------------------------------------------
\* Properties of the maze construction (SpecMaze).

InvariantA(g, nr, nc) ==
    \A c \in Cells(nr, nc) :
        /\ c[1] = 0 => HasBit(g[c], 1)
        /\ c[1] = nr - 1 => HasBit(g[c], 4)
        /\ c[2] = 0 => HasBit(g[c], 8)
        /\ c[2] = nc - 1 => HasBit(g[c], 2)

InvariantB(g, nr, nc) ==
    /\ \A i \in 0 .. nr - 1 : \A j \in 0 .. nc - 2 :
          HasBit(g[<<i, j>>], 2) <=> HasBit(g[<<i, j + 1>>], 8)
    /\ \A i \in 0 .. nr - 2 : \A j \in 0 .. nc - 1 :
          HasBit(g[<<i, j>>], 4) <=> HasBit(g[<<i + 1, j>>], 1)

\* C1: after construction by either path, and for every grid size, every
\* pair of adjacent cells agrees on the wall between them (Invariant B).
C1_InvariantB ==
    pc = "built" => InvariantB(maze, num_rows, num_cols)

\* A maze built from a mask grid that the boundary fix left inconsistent.
C1_Witness ==
    /\ pc = "built"
    /\ call.path = "grid"
    /\ num_rows * num_cols > 1
    /\ check_wall_inconsistency(
           fix_maze_boundary(call.grid, num_rows, num_cols), num_rows, num_cols) # {}

\* C2: after construction by either path the outer boundary is closed
\* (Invariant A) and every wall bit of the input grid is still set.
C2_InvariantA ==
    pc = "built" =>
        /\ InvariantA(maze, num_rows, num_cols)
        /\ \A c \in Cells(num_rows, num_cols) : \A b \in {1, 2, 4, 8} :
              HasBit(call.grid[c], b) => HasBit(maze[c], b)

\* A maze built from a grid that lacked a boundary bit, had walls of its
\* own, and needed the consistency repair as well.
C2_Witness ==
    /\ pc = "built"
    /\ call.path = "grid"
    /\ ~InvariantA(call.grid, num_rows, num_cols)
    /\ \E c \in Cells(num_rows, num_cols) : call.grid[c] # 0
    /\ check_wall_inconsistency(
           fix_maze_boundary(call.grid, num_rows, num_cols), num_rows, num_cols) # {}

----------------------------------------------------------------------------
\* Properties of the particle's operations (SpecOps).

InMaze(p) == 0 <= p.x /\ p.x < width /\ 0 <= p.y /\ p.y < height

Grid == Cells(num_rows, num_cols)

\* The neighbour direction <<di, dj>> and the wall bit of up, right, down, left.
CompassDir == <<<<0 - 1, 0>>, <<0, 1>>, <<1, 0>>, <<0, 0 - 1>>>>
CompassBit == <<1, 2, 4, 8>>

\* The distance from (x, y) to the four edges of its own cell.
Residual(x, y) ==
    LET i == y \div grid_height
        j == x \div grid_width
    IN <<y - i * grid_height, (j + 1) * grid_width - x,
         (i + 1) * grid_height - y, x - j * grid_width>>

\* n consecutive open edges lie in direction k of cell c, and then a wall,
\* all inside the grid.
OpenRun(c, k, n) ==
    LET at(m) == <<c[1] + m * CompassDir[k][1], c[2] + m * CompassDir[k][2]>>
    IN /\ \A m \in 0 .. n : at(m) \in Grid
       /\ \A m \in 0 .. n - 1 : ~HasBit(maze[at(m)], CompassBit[k])
       /\ HasBit(maze[at(n)], CompassBit[k])

StartCell(c) == <<c.p.y \div grid_height, c.p.x \div grid_width>>
Candidate(c) ==
    <<c.p.x + Displacement(c.p.heading, c.speed)[1],
      c.p.y + Displacement(c.p.heading, c.speed)[2]>>
CandidateCell(c) ==
    <<Candidate(c)[2] \div grid_height, Candidate(c)[1] \div grid_width>>

Strip(n, d, size) ==
    CHOOSE r \in (0 - 2) .. (num_rows + num_cols + 2) :
        IF d > 0 THEN r * size * d <= n /\ n < (r + 1) * size * d
        ELSE r * size * d >= n /\ n > (r + 1) * size * d

Diagonal(c) ==
    /\ CandidateCell(c) \in Grid
    /\ Abs(StartCell(c)[1] - CandidateCell(c)[1]) = 1
    /\ Abs(StartCell(c)[2] - CandidateCell(c)[2]) = 1

\* The cell left of the point where the segment of the move meets the
\* vertical grid line between the two columns.
CrossedRight(c) ==
    LET dx == Candidate(c)[1] - c.p.x
        dy == Candidate(c)[2] - c.p.y
        x0 == Max(StartCell(c)[2], CandidateCell(c)[2]) * grid_width
    IN <<Strip(dy * (x0 - c.p.x) + c.p.y * dx, dx, grid_height),
         Min(StartCell(c)[2], CandidateCell(c)[2])>>

\* The cell above the point where the segment meets the horizontal grid line
\* between the two rows.
CrossedBottom(c) ==
    LET dx == Candidate(c)[1] - c.p.x
        dy == Candidate(c)[2] - c.p.y
        y0 == Max(StartCell(c)[1], CandidateCell(c)[1]) * grid_height
    IN <<Min(StartCell(c)[1], CandidateCell(c)[1]),
         Strip(dx * (y0 - c.p.y) + c.p.x * dy, dy, grid_width)>>

DiagonalRule(c) ==
    /\ c.fault = "none"
    /\ c.reads \subseteq Grid
    /\ c.accepted <=>
          /\ CrossedRight(c) \in Grid
          /\ ~HasBit(maze[CrossedRight(c)], 2)
          /\ CrossedBottom(c) \in Grid
          /\ ~HasBit(maze[CrossedBottom(c)], 4)

\* C5: a move across one row and one column is accepted iff the right edge
\* and the bottom edge that its segment crosses are both open, and every
\* cell it looks up lies inside the grid.
C5_Diagonal ==
    (call.op = "try_move" /\ Diagonal(call)) => DiagonalRule(call)

\* The same for a move that starts inside the maze.
C5_DiagonalFromInside ==
    (call.op = "try_move" /\ Diagonal(call) /\ InMaze(call.p)) => DiagonalRule(call)

\* An accepted diagonal move from inside the maze.
C5_WitnessInside ==
    call.op = "try_move" /\ Diagonal(call) /\ InMaze(call.p) /\ call.accepted

\* C6: try_move leaves heading, weight and maze alone; a rejected move leaves
\* (x, y) as it was and an accepted one sets it to the candidate.
C6_Frame ==
    (call.op = "try_move" /\ call.fault = "none") =>
        LET after == particles[1]
        IN /\ after.heading = call.p.heading
           /\ after.weight = call.p.weight
           /\ after.sensor_limit = call.p.sensor_limit
           /\ maze = call.grid
           /\ ~call.accepted => (after.x = call.p.x /\ after.y = call.p.y)
           /\ call.accepted =>
                 (after.x = Candidate(call)[1] /\ after.y = Candidate(call)[2])

\* An accepted move that changed x and y by different amounts, and (the
\* second witness) a move rejected by a wall.
C6_Witness ==
    /\ call.op = "try_move"
    /\ call.accepted
    /\ Candidate(call)[1] # call.p.x
    /\ Candidate(call)[1] - call.p.x # Candidate(call)[2] - call.p.y

Sign(a) == IF a > 0 THEN 1 ELSE IF a < 0 THEN 0 - 1 ELSE 0

\* The index (1..4) of the raw reading found at index n of a reading rotated
\* right by k.
Source(n, k) == ((n - 1 - k) % 4) + 1

RotationOf(heading) ==
    IF 45 <= heading /\ heading < 135 THEN 0
    ELSE IF 135 <= heading /\ heading < 225 THEN 1
    ELSE IF 225 <= heading /\ heading < 315 THEN 2
    ELSE 3

\* The axis-aligned heading of each rotation 0..3.
AxisHeading(k) == <<90, 180, 270, 0>>[k + 1]

\* The step <<di, dj>> in cells of a move with the given heading.
MoveDir(heading) ==
    <<Sign(Displacement(heading, robot_speed)[2]),
      Sign(Displacement(heading, robot_speed)[1])>>

\* C10: the oriented reading is the raw reading rotated right by the bucket
\* of the heading and clipped to the sensor limit; in every bucket its second
\* component looks where try_move moves for the bucket's axis-aligned
\* heading, its fourth looks behind, its first and third to the same sides.
C10_Oriented ==
    (call.op = "read_sensor" /\ ~call.dw.fault) =>
        LET k == RotationOf(call.p.heading)
            fwd == MoveDir(AxisHeading(k))
            lim == call.p.sensor_limit
        IN /\ Len(call.readings) = 4
           /\ \A n \in 1 .. 4 :
                 call.readings[n] =
                    IF lim # None /\ call.dw.d[Source(n, k)] > lim THEN lim
                    ELSE call.dw.d[Source(n, k)]
           /\ RotationOf(AxisHeading(k)) = k
           /\ WalkDir[Source(2, k)] = fwd
           /\ WalkDir[Source(4, k)] = <<0 - fwd[1], 0 - fwd[2]>>
           /\ WalkDir[Source(1, k)] = <<0 - fwd[2], fwd[1]>>
           /\ WalkDir[Source(3, k)] = <<fwd[2], 0 - fwd[1]>>

\* A reading rotated by two, with four different raw distances, one clipped.
C10_Witness ==
    /\ call.op = "read_sensor"
    /\ ~call.dw.fault
    /\ RotationOf(call.p.heading) = 2
    /\ Cardinality({call.dw.d[n] : n \in 1 .. 4}) = 4
    /\ call.p.sensor_limit # None
    /\ \E n \in 1 .. 4 : call.dw.d[n] > call.p.sensor_limit
    /\ \E n \in 1 .. 4 : call.dw.d[n] < call.p.sensor_limit

----------------------------------------------------------------------------
\* Properties of the resampler (SpecSelect).

RatLeq(a, b) == ~RatLess(b, a)

\* The sum of the first k weights of the population.
PartialSum(k) == RatSum([m \in 1 .. k |-> particles[m].weight])

LeftMost(c) ==
    /\ Len(c.distribution) = Len(particles)
    /\ \A k \in 1 .. Len(particles) : c.distribution[k] = PartialSum(k)
    /\ \A k \in 1 .. Len(particles) - 1 :
          RatLeq(c.distribution[k], c.distribution[k + 1])
    /\ c.k \in 0 .. Len(particles)
    /\ c.k # 0 =>
          /\ RatLeq(c.u, c.distribution[c.k])
          /\ \A m \in 1 .. c.k - 1 : RatLess(c.distribution[m], c.u)
    /\ c.k = 0 => \A m \in 1 .. Len(particles) : RatLess(c.distribution[m], c.u)

\* Exactly one particle has weight 1.0 and all the others 0.0.
OneHot(hot) ==
    /\ hot \in 1 .. Len(particles)
    /\ particles[hot].weight = <<1, 1>>
    /\ \A m \in (1 .. Len(particles)) \ {hot} : particles[m].weight = <<0, 1>>

\* C9: random_select returns the particle at the left-most index whose
\* running sum is >= u, the sums being non-decreasing in population order;
\* and in a population with one weight 1.0 and the others 0.0 every draw
\* returns the particle of weight 1.0.
C9_Select ==
    call.op = "random_select" =>
        /\ LeftMost(call)
        /\ \A hot \in 1 .. Len(particles) : OneHot(hot) => call.k = hot

\* The first half of C9 alone, and the second for every draw u > 0.
C9_LeftMost ==
    call.op = "random_select" =>
        /\ LeftMost(call)
        /\ \A hot \in 1 .. Len(particles) :
              (OneHot(hot) /\ call.u[1] > 0) => call.k = hot

C9_WitnessLeftMost ==
    /\ call.op = "random_select"
    /\ call.k = 3
    /\ call.distribution[1] # call.distribution[2]
    /\ call.u[1] > 0

----------------------------------------------------------------------------
\* Properties of the loop of main (Spec).

Agents ==
    (IF pc \in {"new", "robot"} THEN {} ELSE {bob.p})
        \cup {particles[k] : k \in 1 .. Len(particles)}
        \cup {loc.particles_new[k] : k \in 1 .. Len(loc.particles_new)}

\* C7: in every state of the simulation every agent's pose has
\* 0 <= x < width, 0 <= y < height and 0 <= heading < 360.
C7_PoseInRange ==
    \A a \in Agents :
        /\ 0 <= a.x /\ a.x < width
        /\ 0 <= a.y /\ a.y < height
        /\ 0 <= a.heading /\ a.heading < 360

\* C8: every resampling round builds a population of exactly num_particles
\* particles: no draw raises; a draw that returns a particle of the old
\* population gives a noisy clone of it with weight 1, a draw that returns
\* None gives a fresh particle with weight 1; the population has
\* num_particles particles at the start of every step, all zero weights
\* included.
C8_Resampling ==
    /\ pc \in {"sense", "resample", "robot_move", "particles_move"}
          => Len(particles) = num_particles
    /\ pc = "resample" => Len(loc.particles_new) < num_particles
    /\ pc = "robot_move" => loc.particles_new = <<>>
    /\ call.op = "random_select" =>
          /\ pc # "crashed"
          /\ call.k \in 0 .. num_particles
          /\ call.new.weight = <<1, 1>>
          /\ call.k > 0 =>
                \E noise \in Noise(call.old.x) \X Noise(call.old.y)
                                \X HeadingNoise(call.old.heading) :
                    call.new = Particle(call.old.x, call.old.y, call.old.heading,
                                        sensor_limit, TRUE, noise)
          /\ call.k = 0 =>
                /\ call.new.x \in Uniform(width)
                /\ call.new.y \in Uniform(height)
          /\ IF pc = "robot_move"
             THEN particles[num_particles] = call.new
             ELSE loc.particles_new[Len(loc.particles_new)] = call.new

\* A round that ends with a draw of None from a population whose weights
\* are all zero, after an earlier draw of a particle.
C8_Witness ==
    /\ pc = "robot_move"
    /\ call.op = "random_select"
    /\ call.zero
    /\ call.k = 0
    /\ particles[1].x \notin Uniform(width)
    /\ Len(particles) = num_particles

----------------------------------------------------------------------------
\* Properties of Robot.move (SpecMove).

\* C11: in every step Robot.move returns: from every pose inside the maze,
\* with a speed of at most one cell and the headings drawn fairly, the loop
\* of retries reaches an accepted try_move.
C11_MoveReturns == (pc = "robot_move") ~> (pc # "robot_move")

\* The retries of C11 one by one: every attempt counts one time step; a
\* rejected one leaves (x, y) and stays in the loop, an accepted one moves
\* the robot by the displacement of its heading and ends the loop, and the
\* particles move only after it.
C11_Retry ==
    /\ (call.op = "try_move" /\ call.who = 0) =>
          /\ call.fault = "none"
          /\ bob.time_step = Min(call.time_step + 1, MaxTimeStep)
          /\ bob.speed = call.speed
          /\ call.accepted =>
                /\ pc = "particles_move"
                /\ bob.p.heading = call.p.heading
                /\ bob.p.x = call.p.x + Displacement(call.p.heading, call.speed)[1]
                /\ bob.p.y = call.p.y + Displacement(call.p.heading, call.speed)[2]
                /\ loc.dh = bob.p.heading - loc.heading_old
          /\ ~call.accepted =>
                /\ pc = "robot_move"
                /\ bob.p.x = call.p.x
                /\ bob.p.y = call.p.y
    /\ pc \in {"particles_move", "sense"} =>
          /\ call.op = "try_move"
          /\ call.who = 0 => call.accepted
          /\ call.who > 0 => loc.i \in {0, call.who + 1}

\* A rejected attempt followed by an accepted one with another heading.
C11_WitnessRetry ==
    /\ pc = "particles_move"
    /\ call.op = "try_move"
    /\ call.who = 0
    /\ call.accepted
    /\ bob.time_step = 2
    /\ loc.dh # 0

\* A robot that no heading can move: its cell has all four walls and every
\* corner of the cell is nearer than one move, so no point at distance
\* speed lies in the cell.
C11_Enclosed ==
    LET gj == bob.p.x \div grid_width
        gi == bob.p.y \div grid_height
        near(cx, cy) == (cx - bob.p.x) * (cx - bob.p.x) + (cy - bob.p.y) * (cy - bob.p.y)
                            < bob.speed * bob.speed
    IN /\ pc = "robot_move"
       /\ bob.time_step = MaxTimeStep
       /\ maze[<<gi, gj>>] = 15
       /\ \A cx \in {gj * grid_width, (gj + 1) * grid_width} :
          \A cy \in {gi * grid_height, (gi + 1) * grid_height} : near(cx, cy)

----------------------------------------------------------------------------
\* Properties of the fatal fault of try_move (SpecOps, and the step loop).

C12_StepLoop ==
    call.op = "try_move" =>
        /\ call.speed = bob.speed
        /\ call.speed <= Min(grid_height, grid_width)
        /\ call.fault # "collision"

====
